---- MODULE Spec2Model ----
(***************************************************************************)
(* Model of montepython/parser_mp.py: the command line layer of Monte      *)
(* Python.  parse() tokenises a command, inserts the default subcommand    *)
(* (set_default_subparser), hands the tokens to argparse (parse_args) and, *)
(* for the run subcommand, resolves the output folder and parameter file   *)
(* against the file system.                                                *)
(*                                                                         *)
(* Python strings are sequences of one-character strings, so that find,    *)
(* split, join and os.path.join are computed character by character.       *)
(* Optional values (None or a value) are tuples: <<>> is None and <<v>> is *)
(* the value v; the empty string is << <<>> >>, distinct from None.        *)
(***************************************************************************)
EXTENDS Integers, Sequences, FiniteSets, TLC

VARIABLES
    custom_command, \* parse()'s argument: a string ('' = read sys.argv)
    sys_argv,       \* sys.argv[1:]: a list of strings
    fs,             \* the file system: [dirs, files], sets of normalised paths
    pc,             \* position in parse(): start, parse_args, validate, done
    arg_list,       \* the token list inside safe_parse_args
    args,           \* the argparse namespace
    raised,         \* how parse() ended: none, ConfigurationError, IndexError, SystemExit
    warned          \* the warnings emitted, in order

vars == <<custom_command, sys_argv, fs, pc, arg_list, args, raised, warned>>

\* Largest number of option chunks in one generated command.
MaxOpts == 3

----------------------------------------------------------------------------
\* Python string and list primitives.

None == <<>>
Some(v) == <<v>>

SPACE == " "
HYPHEN == "-"
sep == "/"

\* str.find(ch): index (from 0) of the first occurrence, -1 when absent.
find(s, ch) ==
    IF \E i \in 1..Len(s) : s[i] = ch
    THEN (CHOOSE i \in 1..Len(s) : s[i] = ch /\ \A j \in 1..(i-1) : s[j] # ch) - 1
    ELSE -1

\* str.split(ch): the pieces between occurrences of ch; split of '' is [''].
RECURSIVE split(_, _)
split(s, ch) ==
    LET i == find(s, ch)
    IN  IF i = -1 THEN <<s>>
        ELSE <<SubSeq(s, 1, i)>> \o split(SubSeq(s, i + 2, Len(s)), ch)

\* ch.join(list)
RECURSIVE join(_, _)
join(ch, list) ==
    IF list = <<>> THEN <<>>
    ELSE IF Len(list) = 1 THEN list[1]
    ELSE list[1] \o <<ch>> \o join(ch, Tail(list))

\* list[:-1]
butlast(list) == SubSeq(list, 1, Len(list) - 1)

\* os.path.join(a, b) for a relative b (posixpath).
path_join(a, b) ==
    IF a = <<>> \/ a[Len(a)] = sep THEN a \o b ELSE a \o <<sep>> \o b

\* The components the kernel resolves: empty components are skipped.
components(path) == SelectSeq(split(path, sep), LAMBDA c : c # <<>>)
normpath(path) == join(sep, components(path))

isdir(path) == path # <<>> /\ normpath(path) \in fs.dirs
isfile(path) ==
    /\ path # <<>>
    /\ path[Len(path)] # sep
    /\ normpath(path) \in fs.files
exists(path) == isdir(path) \/ isfile(path)

----------------------------------------------------------------------------
\* The strings of the command line.

RUN == <<"r","u","n">>
INFO == <<"i","n","f","o">>
opt_h == <<"-","h">>
opt_help == <<"-","-","h","e","l","p">>
opt_version == <<"-","-","v","e","r","s","i","o","n">>
opt_info == <<"-","i","n","f","o">>
opt_N == <<"-","N">>
opt_o == <<"-","o">>
opt_output == <<"-","-","o","u","t","p","u","t">>
opt_p == <<"-","p">>
opt_param == <<"-","-","p","a","r","a","m">>
opt_c == <<"-","c">>
opt_covmat == <<"-","-","c","o","v","m","a","t">>
opt_j == <<"-","j">>
opt_jumping == <<"-","-","j","u","m","p","i","n","g">>
opt_r == <<"-","r">>
opt_b == <<"-","b">>
opt_bestfit == <<"-","-","b","e","s","t","f","i","t">>
opt_silent == <<"-","-","s","i","l","e","n","t">>
opt_noplot == <<"-","-","n","o","p","l","o","t">>
jumping_global == <<"g","l","o","b","a","l">>
jumping_sequential == <<"s","e","q","u","e","n","t","i","a","l">>
jumping_fast == <<"f","a","s","t">>
log_param == <<"l","o","g",".","p","a","r","a","m">>

----------------------------------------------------------------------------
\* MpArgumentParser.set_default_subparser(default, args), lines 44-62.
\* Returns [raised, args]; args[0] of an empty list raises IndexError.

\* Variant: the default subcommand is inserted only before a string that
\* starts with a hyphen.
set_default_subparser_leading(default, a0, argv) ==
    LET a == IF a0 = <<>> THEN argv ELSE a0
    IN  IF a = <<>> THEN [raised |-> "IndexError", args |-> a]
        ELSE IF a[1] \notin {opt_h, opt_help, opt_version, opt_info}
        THEN IF a[1] # <<>> /\ a[1][1] = HYPHEN
             THEN [raised |-> "none", args |-> <<default>> \o a]
             ELSE [raised |-> "none", args |-> a]
        ELSE IF a[1] = opt_info
        THEN [raised |-> "none", args |-> [a EXCEPT ![1] = INFO]]
        ELSE [raised |-> "none", args |-> a]

\* Variant: the default subcommand is appended, not put first.
set_default_subparser_appended(default, a0, argv) ==
    LET a == IF a0 = <<>> THEN argv ELSE a0
    IN  IF a = <<>> THEN [raised |-> "IndexError", args |-> a]
        ELSE IF a[1] \notin {opt_h, opt_help, opt_version, opt_info}
        THEN IF find(a[1], HYPHEN) # -1
             THEN [raised |-> "none", args |-> a \o <<default>>]
             ELSE [raised |-> "none", args |-> a]
        ELSE IF a[1] = opt_info
        THEN [raised |-> "none", args |-> [a EXCEPT ![1] = INFO]]
        ELSE [raised |-> "none", args |-> a]

\* Variant: the legacy flag -info is not set apart from the other flags.
set_default_subparser_no_legacy(default, a0, argv) ==
    LET a == IF a0 = <<>> THEN argv ELSE a0
    IN  IF a = <<>> THEN [raised |-> "IndexError", args |-> a]
        ELSE IF a[1] \notin {opt_h, opt_help, opt_version}
        THEN IF find(a[1], HYPHEN) # -1
             THEN [raised |-> "none", args |-> <<default>> \o a]
             ELSE [raised |-> "none", args |-> a]
        ELSE [raised |-> "none", args |-> a]

set_default_subparser(default, a0, argv) ==
    LET a == IF a0 = <<>> THEN argv ELSE a0
    IN  IF a = <<>> THEN [raised |-> "IndexError", args |-> a]
        ELSE IF a[1] \notin {opt_h, opt_help, opt_version, opt_info}
        THEN IF find(a[1], HYPHEN) # -1
             THEN [raised |-> "none", args |-> <<default>> \o a]
             ELSE [raised |-> "none", args |-> a]
        ELSE IF a[1] = opt_info
        THEN [raised |-> "none", args |-> [a EXCEPT ![1] = INFO]]
        ELSE [raised |-> "none", args |-> a]

\* parse(), lines 467-470: the list handed to safe_parse_args; None (here
\* the empty list, which `not args` treats alike) when custom_command is ''.
command_args == IF custom_command = <<>> THEN <<>> ELSE split(custom_command, SPACE)

----------------------------------------------------------------------------
\* The custom argparse types, lines 67-104.

digit_value(ch) ==
    CASE ch = "0" -> 0 [] ch = "1" -> 1 [] ch = "2" -> 2 [] ch = "3" -> 3
      [] ch = "4" -> 4 [] ch = "5" -> 5 [] ch = "6" -> 6 [] ch = "7" -> 7
      [] ch = "8" -> 8 [] ch = "9" -> 9

is_digits(s) ==
    s # <<>> /\ \A i \in 1..Len(s) : s[i] \in {"0","1","2","3","4","5","6","7","8","9"}

RECURSIVE digits_value(_)
digits_value(s) ==
    IF s = <<>> THEN 0
    ELSE 10 * digits_value(butlast(s)) + digit_value(s[Len(s)])

\* int(string): an optional sign and decimal digits; anything else is a
\* ValueError.  Returns [ok, value].
int(string) ==
    IF string # <<>> /\ string[1] \in {"-", "+"}
    THEN IF is_digits(Tail(string))
         THEN [ok |-> TRUE,
               value |-> IF string[1] = "-" THEN 0 - digits_value(Tail(string))
                         ELSE digits_value(Tail(string))]
         ELSE [ok |-> FALSE, value |-> 0]
    ELSE IF is_digits(string)
         THEN [ok |-> TRUE, value |-> digits_value(string)]
         ELSE [ok |-> FALSE, value |-> 0]

\* positive_int(string), lines 67-86: the integer, or ArgumentTypeError for
\* a value that is not an integer or is <= 0.
positive_int(string) ==
    LET v == int(string)
    IN  IF v.ok /\ ~(v.value <= 0)
        THEN [raised |-> "none", value |-> Some(v.value)]
        ELSE [raised |-> "ArgumentTypeError", value |-> None]

\* existing_file(fname), lines 90-104.
existing_file(fname) ==
    IF isfile(fname)
    THEN [raised |-> "none", value |-> Some(fname)]
    ELSE [raised |-> "ArgumentTypeError", value |-> None]

\* MpArgumentParser.error(message), lines 25-32: every argparse error,
\* an ArgumentTypeError of a type function included, is raised from here.
\* Variant: the error of the type function is let through unchanged.
error_reraised(message) == "ArgumentTypeError"

error(message) == "ConfigurationError"

----------------------------------------------------------------------------
\* The argument schema of create_parser, lines 278-442, and argparse's
\* parse_args over it.  The model covers the flags below, given in full
\* (no abbreviated, '=', or attached-value forms).

\* argparse reads a string as an option ('O') when it starts with '-', is
\* longer than one character and is not a negative number; else as a value.
negative_number(s) == Len(s) > 1 /\ s[1] = HYPHEN /\ is_digits(Tail(s))
is_optional(s) == s # <<>> /\ s[1] = HYPHEN /\ Len(s) > 1 /\ ~negative_number(s)

help_flags == {opt_h, opt_help}

\* The run flags that take one value: destination and type.
run_dest(flag) ==
    CASE flag = opt_N -> "N"
      [] flag \in {opt_o, opt_output} -> "folder"
      [] flag \in {opt_p, opt_param} -> "param"
      [] flag \in {opt_c, opt_covmat} -> "cov"
      [] flag \in {opt_j, opt_jumping} -> "jumping"
      [] flag = opt_r -> "restart"
      [] flag \in {opt_b, opt_bestfit} -> "bf"

run_flags == {opt_N, opt_o, opt_output, opt_p, opt_param, opt_c, opt_covmat,
              opt_j, opt_jumping, opt_r, opt_b, opt_bestfit}

jumping_choices == {jumping_global, jumping_sequential, jumping_fast}

\* The value of a run flag after type conversion and the choices check.
run_value(flag, string) ==
    CASE flag = opt_N -> positive_int(string)
      [] flag \in {opt_o, opt_output} -> [raised |-> "none", value |-> Some(string)]
      [] flag \in {opt_p, opt_param, opt_c, opt_covmat, opt_r, opt_b, opt_bestfit} ->
            existing_file(string)
      [] flag \in {opt_j, opt_jumping} ->
            IF string \in jumping_choices
            THEN [raised |-> "none", value |-> Some(string)]
            ELSE [raised |-> "ArgumentError", value |-> None]

\* The namespace before any argument is read: the declared defaults.
namespace(name) ==
    [subparser_name |-> name, N |-> None, folder |-> None, param |-> None,
     cov |-> None, jumping |-> IF name = Some(RUN) THEN Some(jumping_global) ELSE None,
     restart |-> None, bf |-> None, silent |-> FALSE,
     files |-> <<>>, plot |-> TRUE]

\* The run subparser: the strings are taken left to right; a help flag
\* exits at once, a failed conversion or a flag without its value is an
\* error at once, unknown flags and stray values are collected as extras.
RECURSIVE run_parser(_, _, _, _)
run_parser(strings, i, ns, extras) ==
    IF i > Len(strings) THEN [kind |-> "ok", ns |-> ns, extras |-> extras]
    ELSE LET s == strings[i] IN
      IF ~is_optional(s) THEN run_parser(strings, i + 1, ns, TRUE)
      ELSE IF s \in help_flags THEN [kind |-> "exit", ns |-> ns, extras |-> extras]
      ELSE IF s = opt_silent
           THEN run_parser(strings, i + 1, [ns EXCEPT !.silent = TRUE], extras)
      ELSE IF s \in run_flags
           THEN IF i + 1 <= Len(strings) /\ ~is_optional(strings[i + 1])
                THEN LET v == run_value(s, strings[i + 1])
                     IN  IF v.raised = "none"
                         THEN run_parser(strings, i + 2,
                                         [ns EXCEPT ![run_dest(s)] = v.value], extras)
                         ELSE [kind |-> "error", ns |-> ns, extras |-> extras]
                ELSE [kind |-> "error", ns |-> ns, extras |-> extras]
      ELSE run_parser(strings, i + 1, ns, TRUE)

\* The end of the first run of values starting at i (files has nargs='+').
RECURSIVE values_end(_, _)
values_end(strings, i) ==
    IF i <= Len(strings) /\ ~is_optional(strings[i])
    THEN values_end(strings, i + 1) ELSE i

\* The info subparser: the first run of values is files; files is required.
RECURSIVE info_parser(_, _, _, _)
info_parser(strings, i, ns, extras) ==
    IF i > Len(strings)
    THEN IF ns.files = <<>> THEN [kind |-> "error", ns |-> ns, extras |-> extras]
         ELSE [kind |-> "ok", ns |-> ns, extras |-> extras]
    ELSE LET s == strings[i] IN
      IF ~is_optional(s)
      THEN IF ns.files = <<>>
           THEN LET e == values_end(strings, i)
                IN  info_parser(strings, e,
                                [ns EXCEPT !.files = SubSeq(strings, i, e - 1)], extras)
           ELSE info_parser(strings, i + 1, ns, TRUE)
      ELSE IF s \in help_flags THEN [kind |-> "exit", ns |-> ns, extras |-> extras]
      ELSE IF s = opt_noplot
           THEN info_parser(strings, i + 1, [ns EXCEPT !.plot = FALSE], extras)
      ELSE info_parser(strings, i + 1, ns, TRUE)

\* parse_args(args), line 42, on the list set_default_subparser returned
\* (never empty).  -h, --help and --version print and exit; the first
\* string is otherwise the subcommand, and the subparser reads the rest.
\* Extras left by the subparser are the error "unrecognized arguments".
parse_args(strings) ==
    IF strings[1] \in help_flags \cup {opt_version}
    THEN [raised |-> "SystemExit", ns |-> namespace(None)]
    ELSE IF strings[1] \notin {RUN, INFO}
    THEN [raised |-> error("invalid choice"), ns |-> namespace(None)]
    ELSE LET r == IF strings[1] = RUN
                  THEN run_parser(Tail(strings), 1, namespace(Some(RUN)), FALSE)
                  ELSE info_parser(Tail(strings), 1, namespace(Some(INFO)), FALSE)
         IN  IF r.kind = "exit" THEN [raised |-> "SystemExit", ns |-> namespace(None)]
             ELSE IF r.kind = "error"
             THEN [raised |-> error("argument error"), ns |-> namespace(None)]
             ELSE IF r.extras
             THEN [raised |-> error("unrecognized arguments"), ns |-> namespace(None)]
             ELSE [raised |-> "none", ns |-> r.ns]

----------------------------------------------------------------------------
\* The folder and parameter file checks of parse(), lines 473-518.

\* os.path.sep.join(args.restart.split(os.path.sep)[:-1]), lines 478-479.
\* Variant: the last component is not dropped.
restart_folder_whole(restart) == join(sep, split(restart, sep))

restart_folder(restart) == join(sep, butlast(split(restart, sep)))

\* os.path.join(args.folder, 'log.param'), lines 480 and 495-502.
folder_log_param(folder) == path_join(folder, log_param)

\* The warning of lines 503-506 is emitted when a parameter file was given.
\* Variant: the warning is emitted whether or not -p was given.
appending_warning_always(old_param) == <<"Appending">>

appending_warning(old_param) ==
    IF old_param # None THEN <<"Appending">> ELSE <<>>

\* Lines 488-490: no output folder.
\* Variant: a missing output folder is let through.
no_output_folder_accepted(ns) ==
    [raised |-> "none", args |-> ns, warned |-> <<>>]

no_output_folder(ns) ==
    [raised |-> "ConfigurationError", args |-> ns, warned |-> <<>>]

\* Lines 508-512: the folder exists, holds no log.param, and no -p.
\* Variant: an existing folder without log.param needs no -p.
empty_folder_accepted(ns) ==
    [raised |-> "none", args |-> ns, warned |-> <<>>]

empty_folder(ns) ==
    IF ns.param = None
    THEN [raised |-> "ConfigurationError", args |-> ns, warned |-> <<>>]
    ELSE [raised |-> "none", args |-> ns, warned |-> <<>>]

\* Variant: a folder that does not exist yet is given its own log.param.
non_existent_folder_log_param(ns) ==
    IF ns.param = None
    THEN [raised |-> "ConfigurationError", args |-> ns, warned |-> <<>>]
    ELSE [raised |-> "none",
          args |-> [ns EXCEPT !.param = Some(folder_log_param(ns.folder[1]))],
          warned |-> <<>>]

\* Lines 514-518: the folder does not exist, and no -p.
non_existent_folder(ns) ==
    IF ns.param = None
    THEN [raised |-> "ConfigurationError", args |-> ns, warned |-> <<>>]
    ELSE [raised |-> "none", args |-> ns, warned |-> <<>>]

\* Lines 477-483: restart from a chain.
restart_from_chain(ns) ==
    LET folder == restart_folder(ns.restart[1])
    IN  [raised |-> "none",
         args |-> [ns EXCEPT !.folder = Some(folder),
                             !.param = Some(folder_log_param(folder))],
         warned |-> <<"Restarting">>]

\* Lines 500-506: the folder holds a log.param, which replaces any -p.
use_log_param(ns) ==
    [raised |-> "none",
     args |-> [ns EXCEPT !.param = Some(folder_log_param(ns.folder[1]))],
     warned |-> appending_warning(ns.param)]

\* Lines 473-518.  Returns [raised, args, warned].
validate(ns) ==
    IF ns.subparser_name # Some(RUN)
    THEN [raised |-> "none", args |-> ns, warned |-> <<>>]
    ELSE IF ns.restart # None THEN restart_from_chain(ns)
    ELSE IF ns.folder = None THEN no_output_folder(ns)
    ELSE IF isdir(ns.folder[1])
    THEN IF exists(folder_log_param(ns.folder[1]))
         THEN use_log_param(ns)
         ELSE empty_folder(ns)
    ELSE non_existent_folder(ns)

----------------------------------------------------------------------------
\* The commands and file systems explored.

out == <<"o","u","t">>
out_slash == <<"o","u","t","/">>
x_param == <<"x",".","p","a","r","a","m">>
c_txt == <<"c",".","t","x","t">>
out_c_txt == <<"o","u","t","/","c",".","t","x","t">>
out_log_param == <<"o","u","t","/","l","o","g",".","p","a","r","a","m">>
no_file == <<"n","o">>
my_run == <<"c","h","a","i","n","s","/","m","y","-","r","u","n">>
foo == <<"f","o","o">>
opt_bogus == <<"-","-","b","o","g","u","s">>

\* x.param and c.txt are files of the working directory; the folder out
\* is absent, or holds a chain, or holds a chain and its log.param.
FileSystems ==
    { [dirs |-> {}, files |-> {x_param, c_txt}],
      [dirs |-> {out}, files |-> {x_param, c_txt, out_c_txt}],
      [dirs |-> {out}, files |-> {x_param, c_txt, out_c_txt, out_log_param}] }

\* What may precede the options: nothing, a subcommand, a top-level flag,
\* an empty string (a command starting with a space), other words.
Heads ==
    { <<>>, <<RUN>>, <<INFO>>, <<opt_info>>, <<opt_help>>, <<opt_version>>,
      <<foo>>, <<my_run>>, << <<>> >> }

\* The option chunks a command is made of.
Pool ==
    << <<opt_N, <<"1","0">> >>,
       <<opt_N, <<"0">> >>,
       <<opt_N, <<"-","5">> >>,
       <<opt_N, <<"x">> >>,
       <<opt_o, out>>,
       <<opt_output, out_slash>>,
       <<opt_p, x_param>>,
       <<opt_param, no_file>>,
       <<opt_r, out_c_txt>>,
       <<opt_r, c_txt>>,
       <<opt_c, no_file>>,
       <<opt_bestfit, no_file>>,
       <<opt_j, jumping_fast>>,
       <<opt_jumping, foo>>,
       <<opt_silent>>,
       <<opt_bogus>>,
       <<opt_o>>,
       <<out>>,
       <<opt_h>> >>

\* The chunks of Pool chosen by the index set S, in increasing index order
\* from index i on.
RECURSIVE chunks(_, _)
chunks(S, i) ==
    IF i > Len(Pool) THEN <<>>
    ELSE IF i \in S THEN Pool[i] \o chunks(S, i + 1)
    ELSE chunks(S, i + 1)

RECURSIVE reversed_chunks(_, _)
reversed_chunks(S, i) ==
    IF i < 1 THEN <<>>
    ELSE IF i \in S THEN Pool[i] \o reversed_chunks(S, i - 1)
    ELSE reversed_chunks(S, i - 1)

Commands ==
    { join(SPACE, head \o body) :
        head \in Heads,
        body \in UNION { {chunks(S, 1), reversed_chunks(S, Len(Pool))} :
                         S \in {T \in SUBSET (1..Len(Pool)) : Cardinality(T) <= MaxOpts} } }

\* sys.argv[1:] of the runs that pass no custom command.
SysArgvs == { <<>>, <<opt_info, out>>, <<opt_N, <<"1","0">>, opt_o, out>> }

----------------------------------------------------------------------------
\* parse(custom_command), lines 447-520.

Init ==
    /\ custom_command \in Commands
    /\ sys_argv \in IF custom_command = <<>> THEN SysArgvs ELSE {<<>>}
    /\ fs \in FileSystems
    /\ pc = "start"
    /\ arg_list = <<>>
    /\ args = namespace(None)
    /\ raised = "none"
    /\ warned = <<>>

\* Lines 467-470 and 41: the token list, with the default subcommand.
SetDefaultSubparser ==
    /\ pc = "start"
    /\ LET r == set_default_subparser(RUN, command_args, sys_argv)
       IN  /\ arg_list' = r.args
           /\ raised' = r.raised
           /\ pc' = IF r.raised = "none" THEN "parse_args" ELSE "done"
    /\ UNCHANGED <<custom_command, sys_argv, fs, args, warned>>

\* Line 42: argparse.
ParseArgs ==
    /\ pc = "parse_args"
    /\ LET r == parse_args(arg_list)
       IN  /\ args' = r.ns
           /\ raised' = r.raised
           /\ pc' = IF r.raised = "none" THEN "validate" ELSE "done"
    /\ UNCHANGED <<custom_command, sys_argv, fs, arg_list, warned>>

\* Lines 473-520: the checks of the run subcommand, and the return.
Validate ==
    /\ pc = "validate"
    /\ LET r == validate(args)
       IN  /\ args' = r.args
           /\ raised' = r.raised
           /\ warned' = r.warned
    /\ pc' = "done"
    /\ UNCHANGED <<custom_command, sys_argv, fs, arg_list>>

Next == SetDefaultSubparser \/ ParseArgs \/ Validate

Spec == Init /\ [][Next]_vars

returned == pc = "done" /\ raised = "none"

----------------------------------------------------------------------------
\* Properties.

\* The list set_default_subparser works on: the split custom command, or
\* sys.argv[1:] when there is none.
given_args == LET a == command_args IN IF a = <<>> THEN sys_argv ELSE a

\* argparse accepted the command for the run subcommand; the checks of
\* lines 473-518 are about to run on its options.
run_parsed == pc = "validate" /\ args.subparser_name = Some(RUN)

\* folder is path without its last separator-delimited component and the
\* separator before it ('' when path has no separator).
is_parent(folder, path) ==
    \E k \in 0..Len(path) :
        /\ \A j \in (k + 1)..Len(path) : path[j] # sep
        /\ IF k = 0 THEN folder = <<>>
           ELSE path[k] = sep /\ folder = SubSeq(path, 1, k - 1)

\* param is the path of log.param in folder.
is_log_param_of(param, folder) ==
    IF folder # <<>> /\ folder[Len(folder)] # sep
    THEN param = folder \o <<sep>> \o log_param
    ELSE param = folder \o log_param

given(flags) == \E i \in 1..Len(arg_list) : arg_list[i] \in flags

\* C1: whenever the options of a run command hold a restart file, with or
\* without -o and -p, parse() returns, with folder the restart file's path
\* without its last component, param the log.param of that folder, and the
\* restart warning emitted.
C1_RestartResolution ==
    [][ (run_parsed /\ args.restart # None) =>
          /\ pc' = "done" /\ raised' = "none"
          /\ args'.folder # None /\ is_parent(args'.folder[1], args.restart[1])
          /\ args'.param # None /\ is_log_param_of(args'.param[1], args'.folder[1])
          /\ warned' = <<"Restarting">> ]_vars

\* A restart with both -o and -p given has returned.
C1_Witness ==
    /\ returned /\ args.restart # None
    /\ given({opt_o, opt_output}) /\ given({opt_p, opt_param})
    /\ warned = <<"Restarting">>

\* C2: whenever the options of a run command hold no restart file and a
\* folder that is a directory containing log.param, parse() returns with
\* the folder unchanged and param the log.param of the folder; a warning is
\* emitted if -p was given with another path, none if -p was not given.
C2_LogParamOverride ==
    [][ ( /\ run_parsed /\ args.restart = None /\ args.folder # None
          /\ isdir(args.folder[1])
          /\ exists(args.folder[1] \o <<sep>> \o log_param) ) =>
          /\ pc' = "done" /\ raised' = "none"
          /\ args'.folder = args.folder
          /\ args'.param # None /\ is_log_param_of(args'.param[1], args.folder[1])
          /\ (args.param # None /\ args.param # args'.param => warned' # <<>>)
          /\ (args.param = None => warned' = <<>>) ]_vars

\* The log.param of an existing folder has replaced a -p that was given.
C2_Witness ==
    /\ returned /\ args.restart = None /\ given({opt_p, opt_param})
    /\ args.folder # None /\ args.param # None
    /\ is_log_param_of(args.param[1], args.folder[1])
    /\ args.param[1] # x_param
    /\ warned = <<"Appending">>

\* C3: when the first given string starts with '-' and is none of -h,
\* --help, --version, -info, set_default_subparser returns run followed by
\* the given strings in order, and a parse() that returns has
\* subparser_name run.
C3_DefaultSubparser ==
    LET a == given_args
    IN  ( /\ pc # "start" /\ a # <<>>
          /\ a[1] # <<>> /\ a[1][1] = HYPHEN
          /\ a[1] \notin {opt_h, opt_help, opt_version, opt_info} ) =>
            /\ raised # "IndexError"
            /\ arg_list = <<RUN>> \o a
            /\ (returned => args.subparser_name = Some(RUN))

\* A command given without subcommand has returned run options.
C3_Witness ==
    /\ returned /\ given_args[1] = opt_N
    /\ arg_list[1] = RUN /\ args.subparser_name = Some(RUN)

\* C4: when the first given string is -info, set_default_subparser puts
\* info in its place, inserts no run, and leaves the other strings and the
\* length as they are; a parse() that returns has subparser_name info.
C4_LegacyInfo ==
    LET a == given_args
    IN  ( /\ pc # "start" /\ a # <<>> /\ a[1] = opt_info ) =>
            /\ raised # "IndexError"
            /\ Len(arg_list) = Len(a)
            /\ arg_list[1] = INFO
            /\ \A i \in 2..Len(a) : arg_list[i] = a[i]
            /\ (returned => args.subparser_name = Some(INFO))

\* A command starting with -info has returned info options.
C4_Witness ==
    /\ returned /\ given_args[1] = opt_info
    /\ args.subparser_name = Some(INFO) /\ args.files # <<>>

\* C5: whenever the options of a run command hold no restart file and no
\* output folder, whatever the other options and the file system, parse()
\* raises ConfigurationError and returns nothing.
C5_MissingFolder ==
    [][ (run_parsed /\ args.restart = None /\ args.folder = None) =>
          pc' = "done" /\ raised' = "ConfigurationError" ]_vars

\* A run command with a valid -p and no -o has been refused.
C5_Witness ==
    /\ pc = "done" /\ raised = "ConfigurationError"
    /\ args.subparser_name = Some(RUN) /\ args.restart = None
    /\ args.folder = None /\ args.param = Some(x_param)

\* C6: whenever the options of a run command hold no restart file, an
\* output folder and no parameter file, parse() raises ConfigurationError
\* if the folder is not a directory, and also if it is one without
\* log.param; it then returns no options.
C6_MissingParam ==
    [][ ( /\ run_parsed /\ args.restart = None /\ args.folder # None
          /\ args.param = None
          /\ \/ ~isdir(args.folder[1])
             \/ ~exists(args.folder[1] \o <<sep>> \o log_param) ) =>
          pc' = "done" /\ raised' = "ConfigurationError" ]_vars

\* A run into an existing folder without log.param and without -p has been
\* refused.
C6_Witness ==
    /\ pc = "done" /\ raised = "ConfigurationError"
    /\ args.subparser_name = Some(RUN) /\ args.restart = None
    /\ args.param = None /\ args.folder # None
    /\ isdir(args.folder[1])
    /\ ~exists(args.folder[1] \o <<sep>> \o log_param)

\* The components of a are the first components of b.
is_under(b, a) ==
    /\ Len(components(a)) < Len(components(b))
    /\ SubSeq(components(b), 1, Len(components(a))) = components(a)

\* C7: whenever parse() returns for the run subcommand, folder and param are
\* neither None nor the empty string, and param lies under folder when
\* restarting or when the folder holds a log.param.
C7_NonEmptyPaths ==
    (returned /\ args.subparser_name = Some(RUN)) =>
        /\ args.folder # None /\ args.folder # Some(<<>>)
        /\ args.param # None /\ args.param # Some(<<>>)
        /\ ( \/ args.restart # None
             \/ (isdir(args.folder[1])
                 /\ exists(args.folder[1] \o <<sep>> \o log_param)) ) =>
              is_under(args.param[1], args.folder[1])

\* C8: whenever parse() returns for the run subcommand, folder and param are
\* set, and param is a file on disk, or the run is a fresh one: the folder
\* holds no log.param and param is the existing file given with -p.
C8_ParamExists ==
    (returned /\ args.subparser_name = Some(RUN)) =>
        /\ args.folder # None /\ args.param # None
        /\ \/ exists(args.param[1])
           \/ /\ args.restart = None
              /\ ~exists(args.folder[1] \o <<sep>> \o log_param)
              /\ given({opt_p, opt_param}) /\ isfile(args.param[1])

\* The strings at i and i + 1 of a run command are a flag and a value that
\* its type refuses: -N with a value that is no integer above 0, or -p, -c,
\* -r, -b (or their long forms) with a value that is not an existing file.
coercion_fails(strings, i) ==
    /\ strings[1] = RUN
    /\ strings[i] \in {opt_N, opt_p, opt_param, opt_c, opt_covmat, opt_r, opt_b, opt_bestfit}
    /\ i + 1 <= Len(strings) /\ ~is_optional(strings[i + 1])
    /\ \/ strings[i] = opt_N
          /\ LET v == int(strings[i + 1]) IN ~(v.ok /\ v.value > 0)
       \/ strings[i] \in {opt_p, opt_param, opt_c, opt_covmat, opt_r, opt_b, opt_bestfit}
          /\ ~isfile(strings[i + 1])

\* A -h, --help or --version that is read before the string at i.
help_before(strings, i) ==
    \/ strings[1] = opt_version
    \/ \E j \in 1..(i - 1) : strings[j] \in help_flags

\* C9 as stated: a value that fails type coercion makes parse() end with
\* ArgumentTypeError, before the folder and param checks, with no options.
C9_ArgumentTypeError ==
    (pc = "done" /\ \E i \in 1..Len(arg_list) : coercion_fails(arg_list, i)) =>
        /\ raised = "ArgumentTypeError"
        /\ args = namespace(None) /\ warned = <<>>

\* C9, amended: a value that fails type coercion makes parse() end before
\* the folder and param checks, with no options, and with
\* ConfigurationError, unless a -h, --help or --version read before the
\* value has ended the process (SystemExit).
C9_ConfigurationError ==
    LET failing == {i \in 1..Len(arg_list) : coercion_fails(arg_list, i)}
    IN  (pc = "done" /\ failing # {}) =>
            /\ args = namespace(None) /\ warned = <<>>
            /\ \/ raised = "ConfigurationError"
               \/ /\ raised = "SystemExit"
                  /\ \A i \in failing : help_before(arg_list, i)

\* A non-positive -N has ended parse() with ConfigurationError.
C9_Witness ==
    /\ pc = "done" /\ raised = "ConfigurationError"
    /\ \E i \in 1..Len(arg_list) :
          arg_list[i] = opt_N /\ coercion_fails(arg_list, i)
    /\ ~ \E i \in 1..Len(arg_list) : arg_list[i] \in help_flags \cup {opt_bogus}
    /\ arg_list[1] = RUN /\ Len(arg_list) = 3

\* C10: a parse() that neither returns options nor exits on -h, --help or
\* --version raises ConfigurationError: no other exception leaves parse().
C10_UniformError ==
    (pc = "done" /\ raised # "none" /\ raised # "SystemExit") =>
        raised = "ConfigurationError"

\* C11: a parse() that returns for a run command without a restart file
\* never returns options in which N is unset.
C11_StepCountRequired ==
    (returned /\ args.subparser_name = Some(RUN) /\ args.restart = None) =>
        args.N # None

starts_with(s, ch) == s # <<>> /\ s[1] = ch
contains(s, ch) == \E i \in 1..Len(s) : s[i] = ch

\* b is a with at most one string put in front, the strings after the
\* first being those of a.
rest_kept(a, b) ==
    /\ Len(a) <= Len(b) /\ Len(b) <= Len(a) + 1
    /\ \A i \in 2..Len(a) : b[i + Len(b) - Len(a)] = a[i]

\* C12 as stated: set_default_subparser inserts run only when the first
\* given string starts with a hyphen (and is none of -h, --help, --version,
\* -info); a list whose first string does not start with a hyphen is
\* returned unchanged; at most one string is inserted and the strings after
\* the first are never modified.
C12_LeadingHyphenOnly ==
    [][ (pc = "start" /\ given_args # <<>>) =>
          LET a == given_args
              b == arg_list'
          IN  /\ Len(b) > Len(a) =>
                    /\ starts_with(a[1], HYPHEN)
                    /\ a[1] \notin {opt_h, opt_help, opt_version, opt_info}
              /\ ~starts_with(a[1], HYPHEN) => b = a
              /\ rest_kept(a, b) ]_vars

\* C12, amended: run is inserted exactly when the first given string
\* contains a hyphen anywhere (and is none of -h, --help, --version, -info),
\* and is then put first; a list whose first string contains no hyphen is
\* returned unchanged; at most one string is inserted and the strings after
\* the first are never modified.
C12_AnyHyphen ==
    [][ (pc = "start" /\ given_args # <<>>) =>
          LET a == given_args
              b == arg_list'
          IN  /\ Len(b) > Len(a) <=>
                    /\ contains(a[1], HYPHEN)
                    /\ a[1] \notin {opt_h, opt_help, opt_version, opt_info}
              /\ Len(b) > Len(a) => b[1] = RUN
              /\ ~contains(a[1], HYPHEN) => b = a
              /\ rest_kept(a, b) ]_vars

\* run has been put before a path that contains a hyphen.
C12_Witness ==
    /\ pc # "start" /\ raised # "IndexError"
    /\ LET a == given_args
       IN  /\ a # <<>> /\ a[1] = my_run /\ Len(a) > 1
           /\ arg_list = <<RUN>> \o a

\* The value given with the last of the flags on the command line, None
\* when none of them is given.
last_value(flags) ==
    LET at == {i \in 1..(Len(arg_list) - 1) : arg_list[i] \in flags}
    IN  IF at = {} THEN None
        ELSE Some(arg_list[(CHOOSE i \in at : \A j \in at : j <= i) + 1])

\* The options other than folder and param.
other_options ==
    {"subparser_name", "N", "cov", "jumping", "restart", "bf", "silent",
     "files", "plot"}

\* C13: whenever the options of a run command hold no restart file, a
\* folder and a parameter file, and the folder holds no log.param (it is no
\* directory, or a directory without log.param), parse() returns, emits no
\* warning, and folder and param are the values given with -o and -p; and
\* no branch of the checks changes an option other than folder and param.
C13_FreshRunFrame ==
    [][ (pc = "validate") =>
          /\ \A o \in other_options : args'[o] = args[o]
          /\ ( /\ args.subparser_name = Some(RUN) /\ args.restart = None
               /\ args.folder # None /\ args.param # None
               /\ ~exists(args.folder[1] \o <<sep>> \o log_param) ) =>
                /\ pc' = "done" /\ raised' = "none" /\ warned' = <<>>
                /\ args'.folder = last_value({opt_o, opt_output})
                /\ args'.param = last_value({opt_p, opt_param}) ]_vars

\* A run into a folder that does not exist, with -p, has returned.
C13_Witness ==
    /\ returned /\ args.subparser_name = Some(RUN) /\ args.restart = None
    /\ args.folder = Some(out) /\ args.param = Some(x_param)
    /\ ~isdir(out) /\ warned = <<>>
    /\ args.N # None

====
